---- MODULE Spec2Model ----
(***************************************************************************)
(* A model of src/src/main.rs: the chess state tracker.  GameState (board  *)
(* and current_player), Square with to_row_col and from_str, and make_move *)
(* are translated from the Rust source.                                    *)
(***************************************************************************)
EXTENDS Integers, Sequences, FiniteSets, TLC

VARIABLES
    board,            \* GameState.board: [[ChessPiece; 8]; 8], indexed [row][col] from 0
    current_player,   \* GameState.current_player
    from,             \* first argument of the latest make_move call ("none" before any)
    to,               \* second argument of the latest make_move call
    result,           \* value returned by the latest make_move call
    nCalls,           \* number of make_move calls so far
    nOk,              \* number of make_move calls that returned Ok so far
    sq,               \* the square handed to to_row_col
    rc,               \* the pair to_row_col returned (<<>> before the call)
    input,            \* the string handed to from_str, a sequence of characters
    parsed,           \* the value from_str returned (<<>> before the call)
    stdin,            \* main: the lines of standard input not yet read
    line,             \* main: the String read_line filled in this iteration
    pc,               \* main: "read", "dispatch" or "done" ("idle" when main is not run)
    printed           \* main: the message the latest iteration printed ("" for none)

vars == <<board, current_player, from, to, result, nCalls, nOk, sq, rc, input, parsed,
          stdin, line, pc, printed>>

\* The variables of main's loop, and their values when main is not run.
mainVars == <<stdin, line, pc, printed>>
mainIdle == stdin = <<>> /\ line = <<>> /\ pc = "idle" /\ printed = ""

----------------------------------------------------------------------------
(* Bounds of the model.                                                    *)

\* make_move is called at most MaxCalls times in one behaviour.
MaxCalls == 3

\* from_str is given strings of at most MaxStrLen characters.
MaxStrLen == 4

\* The squares make_move is called with.  In the starting position they hold
\* the White queen, king and a pawn, nothing, and a Black pawn, king and queen.
MoveSquares == {"D1", "E1", "E2", "E4", "E7", "E8", "D8"}

\* The characters of the strings from_str is given: the file letters in both
\* cases, the rank digits, characters just outside those ranges, a blank, and
\* a letter whose upper case is two characters long.
Chars ==
    {"A", "B", "C", "D", "E", "F", "G", "H",
     "a", "b", "c", "d", "e", "f", "g", "h",
     "1", "2", "3", "4", "5", "6", "7", "8",
     "I", "i", "0", "9", "Z", " ", "ß"}

\* The characters that follow the second one in the longer strings.
TailChars == {"A", "h", "8", " "}

----------------------------------------------------------------------------
(* enum Colour, enum ChessPiece                                            *)

White == "White"
Black == "Black"
Colour == {White, Black}

Pawn(colour)   == <<"Pawn", colour>>
Knight(colour) == <<"Knight", colour>>
Bishop(colour) == <<"Bishop", colour>>
Rook(colour)   == <<"Rook", colour>>
Queen(colour)  == <<"Queen", colour>>
King(colour)   == <<"King", colour>>
Blank          == <<"Blank">>

ChessPiece ==
    {Blank} \cup UNION {{Pawn(c), Knight(c), Bishop(c), Rook(c), Queen(c), King(c)} : c \in Colour}

\* Result<(), String> and Result<Square, String>
Ok(v)    == <<"Ok", v>>
Err(msg) == <<"Err", msg>>
Unit     == <<>>

----------------------------------------------------------------------------
(* enum Square: the 64 variants in declaration order.  `self as usize` is  *)
(* the position of the variant in the declaration, counted from 0.         *)

SquareDecl == <<
    "A1", "A2", "A3", "A4", "A5", "A6", "A7", "A8",
    "B1", "B2", "B3", "B4", "B5", "B6", "B7", "B8",
    "C1", "C2", "C3", "C4", "C5", "C6", "C7", "C8",
    "D1", "D2", "D3", "D4", "D5", "D6", "D7", "D8",
    "E1", "E2", "E3", "E4", "E5", "E6", "E7", "E8",
    "F1", "F2", "F3", "F4", "F5", "F6", "F7", "F8",
    "G1", "G2", "G3", "G4", "G5", "G6", "G7", "G8",
    "H1", "H2", "H3", "H4", "H5", "H6", "H7", "H8"
>>

Square == {SquareDecl[i] : i \in 1..Len(SquareDecl)}

AsUsize(self) == (CHOOSE i \in 1..Len(SquareDecl) : SquareDecl[i] = self) - 1

\* A mistaken to_row_col: row and column exchanged.
to_row_col_Transposed(self) ==
    LET index == AsUsize(self)
        row == index \div 8
        col == index % 8
    IN  <<row, col>>

\* Square::to_row_col
to_row_col(self) ==
    LET index == AsUsize(self)
        row == index % 8
        col == index \div 8
    IN  <<row, col>>

----------------------------------------------------------------------------
(* impl FromStr for Square                                                 *)

LowerCase == <<"a", "b", "c", "d", "e", "f", "g", "h", "i", "j", "k", "l", "m",
               "n", "o", "p", "q", "r", "s", "t", "u", "v", "w", "x", "y", "z">>
UpperCase == <<"A", "B", "C", "D", "E", "F", "G", "H", "I", "J", "K", "L", "M",
               "N", "O", "P", "Q", "R", "S", "T", "U", "V", "W", "X", "Y", "Z">>

\* char::to_uppercase on the characters of the model, as the characters it
\* yields: a lower-case ASCII letter becomes its upper-case letter, the sharp
\* s becomes "SS", every other character is kept.
char_to_uppercase(c) ==
    IF \E i \in 1..Len(LowerCase) : LowerCase[i] = c
    THEN <<UpperCase[CHOOSE i \in 1..Len(LowerCase) : LowerCase[i] = c]>>
    ELSE IF c = "ß" THEN <<"S", "S">>
    ELSE <<c>>

\* A mistaken to_uppercase: the string is matched as it was typed.
to_uppercase_Identity(s) == s

\* str::to_uppercase: the upper case of each character, in order.
RECURSIVE to_uppercase(_)
to_uppercase(s) ==
    IF s = <<>> THEN <<>> ELSE char_to_uppercase(s[1]) \o to_uppercase(Tail(s))

\* The &str a sequence of characters spells.
RECURSIVE as_str(_)
as_str(s) == IF s = <<>> THEN "" ELSE s[1] \o as_str(Tail(s))

\* The arms of the match in from_str, <<pattern, variant>>, in source order.
FromStrArms == <<
    <<"A1", "A1">>, <<"A2", "A2">>, <<"A3", "A3">>, <<"A4", "A4">>,
    <<"A5", "A5">>, <<"A6", "A6">>, <<"A7", "A7">>, <<"A8", "A8">>,
    <<"B1", "B1">>, <<"B2", "B2">>, <<"B3", "B3">>, <<"B4", "B4">>,
    <<"B5", "B5">>, <<"B6", "B6">>, <<"B7", "B7">>, <<"B8", "B8">>,
    <<"C1", "C1">>, <<"C2", "C2">>, <<"C3", "C3">>, <<"C4", "C4">>,
    <<"C5", "C5">>, <<"C6", "C6">>, <<"C7", "C7">>, <<"C8", "C8">>,
    <<"D1", "D1">>, <<"D2", "D2">>, <<"D3", "D3">>, <<"D4", "D4">>,
    <<"D5", "D5">>, <<"D6", "D6">>, <<"D7", "D7">>, <<"D8", "D8">>,
    <<"E1", "E1">>, <<"E2", "E2">>, <<"E3", "E3">>, <<"E4", "E4">>,
    <<"E5", "E5">>, <<"E6", "E6">>, <<"E7", "E7">>, <<"E8", "E8">>,
    <<"F1", "F1">>, <<"F2", "F2">>, <<"F3", "F3">>, <<"F4", "F4">>,
    <<"F5", "F5">>, <<"F6", "F6">>, <<"F7", "F7">>, <<"F8", "F8">>,
    <<"G1", "G1">>, <<"G2", "G2">>, <<"G3", "G3">>, <<"G4", "G4">>,
    <<"G5", "G5">>, <<"G6", "G6">>, <<"G7", "G7">>, <<"G8", "G8">>,
    <<"H1", "H1">>, <<"H2", "H2">>, <<"H3", "H3">>, <<"H4", "H4">>,
    <<"H5", "H5">>, <<"H6", "H6">>, <<"H7", "H7">>, <<"H8", "H8">>
>>

\* Square::from_str
from_str(s) ==
    LET subject == as_str(to_uppercase(s))
        hits == {i \in 1..Len(FromStrArms) : FromStrArms[i][1] = subject}
    IN  IF hits # {}
        THEN Ok(FromStrArms[CHOOSE i \in hits : \A j \in hits : i <= j][2])
        ELSE Err("Invalid square: " \o as_str(s))

----------------------------------------------------------------------------
(* impl GameState                                                          *)

INITIAL_BOARD_Rows == <<
    <<Rook(White), Knight(White), Bishop(White), Queen(White),
        King(White), Bishop(White), Knight(White), Rook(White)>>,
    [i \in 1..8 |-> Pawn(White)],
    [i \in 1..8 |-> Blank],
    [i \in 1..8 |-> Blank],
    [i \in 1..8 |-> Blank],
    [i \in 1..8 |-> Blank],
    [i \in 1..8 |-> Pawn(Black)],
    <<Rook(Black), Knight(Black), Bishop(Black), Queen(Black),
        King(Black), Bishop(Black), Knight(Black), Rook(Black)>>
>>

\* A mistaken starting position: the Black king and queen exchanged.
INITIAL_BOARD_BlackMirrored ==
    [row \in 0..7 |-> [col \in 0..7 |->
        IF row = 7 /\ col = 3 THEN King(Black)
        ELSE IF row = 7 /\ col = 4 THEN Queen(Black)
        ELSE INITIAL_BOARD_Rows[row + 1][col + 1]]]

\* const INITIAL_BOARD, as a Rust array indexed from 0
INITIAL_BOARD ==
    [row \in 0..7 |-> [col \in 0..7 |-> INITIAL_BOARD_Rows[row + 1][col + 1]]]

\* GameState::new
new == [board |-> INITIAL_BOARD, current_player |-> White]

\* The colour a non-Blank piece carries (the binding of the if-let pattern).
colour_of(piece) == piece[2]

\* The match that switches the current player.
switch_player(player) == IF player = White THEN Black ELSE White

\* make_move that refuses a destination holding a piece of the mover's colour.
make_move_RejectsOwnDestination(self, f, t) ==
    LET from_row == to_row_col(f)[1]
        from_col == to_row_col(f)[2]
        to_row   == to_row_col(t)[1]
        to_col   == to_row_col(t)[2]
        piece    == self.board[from_row][from_col]
        target   == self.board[to_row][to_col]
    IN  IF piece = Blank
        THEN [state |-> self, ret |-> Err("No piece at the source square.")]
        ELSE IF colour_of(piece) # self.current_player
        THEN [state |-> self, ret |-> Err("It's not your turn.")]
        ELSE IF target # Blank /\ colour_of(target) = self.current_player
        THEN [state |-> self, ret |-> Err("It's not your turn.")]
        ELSE LET placed  == [self.board EXCEPT ![to_row][to_col] = piece]
                 cleared == [placed EXCEPT ![from_row][from_col] = Blank]
             IN  [state |-> [board |-> cleared,
                             current_player |-> switch_player(self.current_player)],
                  ret |-> Ok(Unit)]

\* make_move that keeps the turn with the mover when the move captures.
make_move_KeepsTurnOnCapture(self, f, t) ==
    LET from_row == to_row_col(f)[1]
        from_col == to_row_col(f)[2]
        to_row   == to_row_col(t)[1]
        to_col   == to_row_col(t)[2]
        piece    == self.board[from_row][from_col]
        target   == self.board[to_row][to_col]
    IN  IF piece = Blank
        THEN [state |-> self, ret |-> Err("No piece at the source square.")]
        ELSE IF colour_of(piece) # self.current_player
        THEN [state |-> self, ret |-> Err("It's not your turn.")]
        ELSE LET placed  == [self.board EXCEPT ![to_row][to_col] = piece]
                 cleared == [placed EXCEPT ![from_row][from_col] = Blank]
             IN  [state |-> [board |-> cleared,
                             current_player |->
                                 IF target = Blank
                                 THEN switch_player(self.current_player)
                                 ELSE self.current_player],
                  ret |-> Ok(Unit)]

\* make_move that clears the source cell before it checks whose turn it is.
make_move_ClearsBeforeTurnCheck(self, f, t) ==
    LET from_row == to_row_col(f)[1]
        from_col == to_row_col(f)[2]
        to_row   == to_row_col(t)[1]
        to_col   == to_row_col(t)[2]
        piece    == self.board[from_row][from_col]
        cleared  == [self.board EXCEPT ![from_row][from_col] = Blank]
    IN  IF piece = Blank
        THEN [state |-> self, ret |-> Err("No piece at the source square.")]
        ELSE IF colour_of(piece) # self.current_player
        THEN [state |-> [board |-> cleared, current_player |-> self.current_player],
              ret |-> Err("It's not your turn.")]
        ELSE LET placed == [self.board EXCEPT ![to_row][to_col] = piece]
             IN  [state |-> [board |-> [placed EXCEPT ![from_row][from_col] = Blank],
                             current_player |-> switch_player(self.current_player)],
                  ret |-> Ok(Unit)]

\* make_move that exchanges the two cells instead of blanking the source.
make_move_SwapsCells(self, f, t) ==
    LET from_row == to_row_col(f)[1]
        from_col == to_row_col(f)[2]
        to_row   == to_row_col(t)[1]
        to_col   == to_row_col(t)[2]
        piece    == self.board[from_row][from_col]
        target   == self.board[to_row][to_col]
    IN  IF piece = Blank
        THEN [state |-> self, ret |-> Err("No piece at the source square.")]
        ELSE IF colour_of(piece) # self.current_player
        THEN [state |-> self, ret |-> Err("It's not your turn.")]
        ELSE LET placed  == [self.board EXCEPT ![to_row][to_col] = piece]
                 cleared == [placed EXCEPT ![from_row][from_col] = target]
             IN  [state |-> [board |-> cleared,
                             current_player |-> switch_player(self.current_player)],
                  ret |-> Ok(Unit)]

\* make_move with the two error messages exchanged.
make_move_MessagesSwapped(self, f, t) ==
    LET from_row == to_row_col(f)[1]
        from_col == to_row_col(f)[2]
        to_row   == to_row_col(t)[1]
        to_col   == to_row_col(t)[2]
        piece    == self.board[from_row][from_col]
    IN  IF piece = Blank
        THEN [state |-> self, ret |-> Err("It's not your turn.")]
        ELSE IF colour_of(piece) # self.current_player
        THEN [state |-> self, ret |-> Err("No piece at the source square.")]
        ELSE LET placed  == [self.board EXCEPT ![to_row][to_col] = piece]
                 cleared == [placed EXCEPT ![from_row][from_col] = Blank]
             IN  [state |-> [board |-> cleared,
                             current_player |-> switch_player(self.current_player)],
                  ret |-> Ok(Unit)]

\* make_move that forgets to blank the source cell.
make_move_LeavesSource(self, f, t) ==
    LET from_row == to_row_col(f)[1]
        from_col == to_row_col(f)[2]
        to_row   == to_row_col(t)[1]
        to_col   == to_row_col(t)[2]
        piece    == self.board[from_row][from_col]
    IN  IF piece = Blank
        THEN [state |-> self, ret |-> Err("No piece at the source square.")]
        ELSE IF colour_of(piece) # self.current_player
        THEN [state |-> self, ret |-> Err("It's not your turn.")]
        ELSE LET placed  == [self.board EXCEPT ![to_row][to_col] = piece]
             IN  [state |-> [board |-> placed,
                             current_player |-> switch_player(self.current_player)],
                  ret |-> Ok(Unit)]

\* GameState::make_move: the GameState after the call and the value returned.
make_move(self, f, t) ==
    LET from_row == to_row_col(f)[1]
        from_col == to_row_col(f)[2]
        to_row   == to_row_col(t)[1]
        to_col   == to_row_col(t)[2]
        piece    == self.board[from_row][from_col]
    IN  IF piece = Blank
        THEN [state |-> self, ret |-> Err("No piece at the source square.")]
        ELSE IF colour_of(piece) # self.current_player
        THEN [state |-> self, ret |-> Err("It's not your turn.")]
        ELSE LET placed  == [self.board EXCEPT ![to_row][to_col] = piece]
                 cleared == [placed EXCEPT ![from_row][from_col] = Blank]
             IN  [state |-> [board |-> cleared,
                             current_player |-> switch_player(self.current_player)],
                  ret |-> Ok(Unit)]

----------------------------------------------------------------------------
(* The game: GameState::new() followed by make_move calls.                 *)

self_now == [board |-> board, current_player |-> current_player]

Init ==
    /\ board = new.board
    /\ current_player = new.current_player
    /\ from = "none"
    /\ to = "none"
    /\ result = <<>>
    /\ nCalls = 0
    /\ nOk = 0
    /\ sq = "none"
    /\ rc = <<>>
    /\ input = <<>>
    /\ parsed = <<>>
    /\ mainIdle

MakeMove ==
    /\ nCalls < MaxCalls
    /\ \E f \in MoveSquares, t \in MoveSquares :
        LET r == make_move(self_now, f, t)
        IN  /\ board' = r.state.board
            /\ current_player' = r.state.current_player
            /\ from' = f
            /\ to' = t
            /\ result' = r.ret
            /\ nCalls' = nCalls + 1
            /\ nOk' = IF r.ret = Ok(Unit) THEN nOk + 1 ELSE nOk
    /\ UNCHANGED <<sq, rc, input, parsed, mainVars>>

Next == MakeMove

Spec == Init /\ [][Next]_vars

----------------------------------------------------------------------------
(* Properties of the game.                                                 *)

\* The cell of board b that square s names: b[row][col] with (row, col) = s.to_row_col().
At(b, s) == b[to_row_col(s)[1]][to_row_col(s)[2]]

FileLetters == <<"A", "B", "C", "D", "E", "F", "G", "H">>
RankDigits  == <<"1", "2", "3", "4", "5", "6", "7", "8">>
BackRank    == <<"Rook", "Knight", "Bishop", "Queen", "King", "Bishop", "Knight", "Rook">>

\* C1: make_move(from, to) returns Ok if and only if the source square holds
\* a piece whose colour is current_player; neither the destination (empty,
\* enemy, own, or the source itself) nor the piece kind matters.
AcceptsIffOwnPiece ==
    [][ (result' = Ok(Unit)) <=>
        (/\ At(board, from') # Blank
         /\ At(board, from')[2] = current_player) ]_vars

\* C1 witness: a move onto a square held by the mover's own king was accepted,
\* and so was a move from a square onto itself.
AcceptsIffOwnPieceWitness ==
    /\ nCalls = 2
    /\ nOk = 2
    /\ from = "E7" /\ to = "E7"
    /\ At(board, "E1") = Pawn(White)

\* C2: every Ok flips current_player, every Err leaves it, so current_player
\* is White exactly when the number of successful moves so far is even.
TurnsAlternate ==
    /\ []((current_player = White) <=> (nOk % 2 = 0))
    /\ [][ /\ current_player' \in Colour
           /\ (result' = Ok(Unit)) => (current_player' # current_player)
           /\ (result' # Ok(Unit)) => (current_player' = current_player) ]_vars

\* C2 witness: two accepted moves and one refused one, White to move again.
TurnsAlternateWitness ==
    /\ nCalls = 3
    /\ nOk = 2
    /\ result[1] = "Err"
    /\ current_player = White

\* C3: a make_move that returns Err leaves all 64 cells and current_player
\* as they were before the call.
ErrLeavesStateUnmodified ==
    [][ (result' # Ok(Unit)) =>
        (/\ board' = board
         /\ current_player' = current_player) ]_vars

\* C3 witness: both refusals have happened, the second after an accepted move.
ErrLeavesStateUnmodifiedWitness ==
    /\ nCalls = 3
    /\ nOk = 1
    /\ result = Err("It's not your turn.")
    /\ At(board, from) # Blank

\* C4 (as stated): after an accepted make_move(from, to) the destination cell
\* holds the piece that stood on the source cell before the call, for all
\* squares from and to.
MoveRelocatesPiece ==
    [][ (result' = Ok(Unit)) => (At(board', to') = At(board, from')) ]_vars

\* C5 (as stated): the board always holds exactly one White king and exactly
\* one Black king.
OneKingEach ==
    \A c \in Colour : Cardinality({s \in Square : At(board, s) = King(c)}) = 1

\* The (from, to) pairs make_move accepts in the present state.
AcceptedMoves ==
    {m \in Square \X Square : make_move(self_now, m[1], m[2]).ret = Ok(Unit)}

\* C6 (as stated): in the state GameState::new() returns, exactly 20 pairs
\* (from, to) are accepted by make_move.
TwentyMovesAtStart ==
    (nCalls = 0) => (Cardinality(AcceptedMoves) = 20)

\* C7: GameState::new() is the standard starting position, White to move.
NewIsStandardPosition ==
    (nCalls = 0) =>
        /\ \A i \in 1..8 :
            /\ At(board, FileLetters[i] \o "1") = <<BackRank[i], White>>
            /\ At(board, FileLetters[i] \o "2") = <<"Pawn", White>>
            /\ \A r \in 3..6 : At(board, FileLetters[i] \o RankDigits[r]) = Blank
            /\ At(board, FileLetters[i] \o "7") = <<"Pawn", Black>>
            /\ At(board, FileLetters[i] \o "8") = <<BackRank[i], Black>>
        /\ At(board, "E1") = <<"King", White>>
        /\ At(board, "D1") = <<"Queen", White>>
        /\ At(board, "E8") = <<"King", Black>>
        /\ At(board, "D8") = <<"Queen", Black>>
        /\ current_player = White

\* C7 witness: the state right after GameState::new().
NewIsStandardPositionWitness ==
    /\ nCalls = 0
    /\ board = new.board
    /\ current_player = new.current_player
    /\ At(board, "H8") = Rook(Black)

\* The cells of the board, as (row, col) pairs.
Cells == (0..7) \X (0..7)

\* C12: an accepted make_move(from, to) changes no cell other than the source
\* and the destination, leaves the source Blank, and flips current_player.
MoveChangesTwoCells ==
    [][ (result' = Ok(Unit)) =>
        (/\ LET named == {to_row_col(from'), to_row_col(to')}
             IN  \A cell \in Cells \ named :
                    board'[cell[1]][cell[2]] = board[cell[1]][cell[2]]
         /\ At(board', from') = Blank
         /\ current_player' # current_player) ]_vars

\* C12 witness: the White queen has taken the Black queen, D1 to D8.
MoveChangesTwoCellsWitness ==
    /\ nCalls = 1
    /\ result = Ok(Unit)
    /\ from = "D1" /\ to = "D8"
    /\ At(board, "D1") = Blank
    /\ At(board, "D8") = Queen(White)

\* C13: make_move returns Err("No piece at the source square.") exactly when
\* the source cell is Blank and Err("It's not your turn.") exactly when the
\* source holds a piece of the colour not on move; it returns no other error.
ErrorsNameTheFailedCheck ==
    [][ /\ (result' = Err("No piece at the source square."))
            <=> (At(board, from') = Blank)
        /\ (result' = Err("It's not your turn."))
            <=> (At(board, from') # Blank /\ At(board, from')[2] # current_player)
        /\ result' \in {Ok(Unit), Err("No piece at the source square."),
                        Err("It's not your turn.")} ]_vars

\* C13 witness: a square vacated by an accepted move was named as the source.
ErrorsNameTheFailedCheckWitness ==
    /\ nCalls = 2
    /\ nOk = 1
    /\ from = "E2"
    /\ result = Err("No piece at the source square.")

\* How many cells of board b hold the piece p.
CountOf(b, p) == Cardinality({cell \in Cells : b[cell[1]][cell[2]] = p})

\* How many cells of board b hold a piece.
NonBlank(b) == Cardinality({cell \in Cells : b[cell[1]][cell[2]] # Blank})

\* How many pieces of each kind one side has in the starting position of chess.
StartCount(kind) ==
    CASE kind = "Pawn" -> 8
      [] kind \in {"Knight", "Bishop", "Rook"} -> 2
      [] kind \in {"Queen", "King"} -> 1

\* C14: no (kind, colour) is ever more numerous than in the starting position,
\* and an accepted make_move lowers the number of non-Blank cells by at most
\* one and never raises it.
PiecesNeverCreated ==
    /\ [](\A p \in ChessPiece \ {Blank} : CountOf(board, p) <= StartCount(p[1]))
    /\ [][ (result' = Ok(Unit)) =>
            (NonBlank(board') \in {NonBlank(board) - 1, NonBlank(board)}) ]_vars

\* C14 witness: a capture has lowered the number of pieces from 32 to 31.
PiecesNeverCreatedWitness ==
    /\ nOk = 1
    /\ NonBlank(board) = 31
    /\ At(board, to) # Blank

----------------------------------------------------------------------------
(* Square::to_row_col on its own: every square, then the call.             *)

InitToRowCol ==
    /\ board = new.board
    /\ current_player = new.current_player
    /\ from = "none"
    /\ to = "none"
    /\ result = <<>>
    /\ nCalls = 0
    /\ nOk = 0
    /\ sq \in Square
    /\ rc = <<>>
    /\ input = <<>>
    /\ parsed = <<>>
    /\ mainIdle

ToRowCol ==
    /\ rc = <<>>
    /\ rc' = to_row_col(sq)
    /\ UNCHANGED <<board, current_player, from, to, result, nCalls, nOk, sq, input, parsed, mainVars>>

NextToRowCol == ToRowCol

SpecToRowCol == InitToRowCol /\ [][NextToRowCol]_vars

E4MapsTo44 ==
    (sq = "E4" /\ rc # <<>>) => (rc = <<4, 4>>)

----------------------------------------------------------------------------
(* Square::from_str on its own: every string of the bounds, then the call. *)

\* The strings from_str is given: every string of at most two characters of
\* Chars, and every two-character string followed by up to MaxStrLen - 2
\* characters of TailChars.
Strings ==
    (UNION {[1..n -> Chars] : n \in 0..2})
    \cup {head \o tail : head \in [1..2 -> Chars],
                         tail \in UNION {[1..n -> TailChars] : n \in 1..(MaxStrLen - 2)}}

InitFromStr ==
    /\ board = new.board
    /\ current_player = new.current_player
    /\ from = "none"
    /\ to = "none"
    /\ result = <<>>
    /\ nCalls = 0
    /\ nOk = 0
    /\ sq = "none"
    /\ rc = <<>>
    /\ input \in Strings
    /\ parsed = <<>>
    /\ mainIdle

FromStr ==
    /\ parsed = <<>>
    /\ parsed' = from_str(input)
    /\ UNCHANGED <<board, current_player, from, to, result, nCalls, nOk, sq, rc, input, mainVars>>

NextFromStr == FromStr

SpecFromStr == InitFromStr /\ [][NextFromStr]_vars

LowerFileLetters == <<"a", "b", "c", "d", "e", "f", "g", "h">>

\* The strings that name a square: a file letter of either case, then a rank digit.
IsSquareName(s) ==
    /\ Len(s) = 2
    /\ \E f \in 1..8 : s[1] \in {FileLetters[f], LowerFileLetters[f]}
    /\ \E r \in 1..8 : s[2] = RankDigits[r]

\* C10: from_str accepts exactly the strings made of a file letter A..H of
\* either case and a rank digit 1..8, returns the variant of that name, and
\* returns Err for every other string.
FromStrAcceptsExactlyNames ==
    (parsed # <<>>) =>
        IF IsSquareName(input)
        THEN \E f \in 1..8, r \in 1..8 :
                /\ input[1] \in {FileLetters[f], LowerFileLetters[f]}
                /\ input[2] = RankDigits[r]
                /\ parsed = Ok(FileLetters[f] \o RankDigits[r])
        ELSE parsed[1] = "Err"

\* C10 witness: a name typed in lower case has been parsed.
FromStrAcceptsExactlyNamesWitness ==
    /\ input = <<"e", "4">>
    /\ parsed = Ok("E4")

----------------------------------------------------------------------------
(* A long game with few choices: each call names as its source the first   *)
(* square, in declaration order, that holds a piece of the player to move, *)
(* and as its destination either that same square or the first square that *)
(* holds a piece of the other player.                                      *)

\* make_move is called at most MaxLongCalls times in such a game.
MaxLongCalls == 16

\* The squares, in declaration order, that hold a piece of the given colour.
SquaresOf(b, colour) ==
    {i \in 1..Len(SquareDecl) :
        At(b, SquareDecl[i]) # Blank /\ At(b, SquareDecl[i])[2] = colour}

\* The first of them.
FirstSquareOf(b, colour) ==
    SquareDecl[CHOOSE i \in SquaresOf(b, colour) : \A j \in SquaresOf(b, colour) : i <= j]

MakeMoveFirstPiece ==
    /\ nCalls < MaxLongCalls
    /\ SquaresOf(board, current_player) # {}
    /\ LET f == FirstSquareOf(board, current_player)
           enemy == switch_player(current_player)
           targets == {f} \cup (IF SquaresOf(board, enemy) # {}
                                THEN {FirstSquareOf(board, enemy)} ELSE {})
       IN  \E t \in targets :
            LET r == make_move(self_now, f, t)
            IN  /\ board' = r.state.board
                /\ current_player' = r.state.current_player
                /\ from' = f
                /\ to' = t
                /\ result' = r.ret
                /\ nCalls' = nCalls + 1
                /\ nOk' = IF r.ret = Ok(Unit) THEN nOk + 1 ELSE nOk
    /\ UNCHANGED <<sq, rc, input, parsed, mainVars>>

NextLong == MakeMoveFirstPiece

SpecLong == Init /\ [][NextLong]_vars

\* C15 (as stated): the player to move always has at least one piece on the
\* board, so at least one make_move(from, to) is accepted.
PlayerToMoveHasAPiece ==
    /\ \E cell \in Cells :
        /\ board[cell[1]][cell[2]] # Blank
        /\ board[cell[1]][cell[2]][2] = current_player
    /\ \E f \in Square, t \in Square : make_move(self_now, f, t).ret = Ok(Unit)

----------------------------------------------------------------------------
(* fn main: the loop that reads a line, parses it and calls make_move.     *)

\* Standard input holds at most MaxLines lines.
MaxLines == 3

\* The lines standard input is made of, each with its newline: moves in
\* either case and with a tab, a move make_move refuses, the quit command
\* (plain, and padded in mixed case), quit with a second word, an empty line,
\* one token, three tokens, and a bad first and a bad second token.
InputLines == {
    <<"e", "2", " ", "e", "4", "\n">>,
    <<"E", "7", " ", "e", "5", "\n">>,
    <<"e", "2", "\t", "e", "4", "\n">>,
    <<"e", "4", " ", "e", "2", "\n">>,
    <<"q", "u", "i", "t", "\n">>,
    <<" ", "Q", "u", "I", "t", " ", "\n">>,
    <<"q", "u", "i", "t", " ", "n", "o", "w", "\n">>,
    <<"\n">>,
    <<"e", "2", "\n">>,
    <<"e", "2", " ", "e", "4", " ", "e", "5", "\n">>,
    <<"z", "9", " ", "e", "4", "\n">>,
    <<"e", "2", " ", "z", "9", "\n">>
}

InputStreams == UNION {[1..n -> InputLines] : n \in 0..MaxLines}

\* char::is_whitespace on the characters of the model.
is_whitespace(c) == c \in {" ", "\t", "\n"}

\* str::trim: the string without its leading and trailing whitespace.
RECURSIVE trim_start(_)
trim_start(s) ==
    IF s # <<>> /\ is_whitespace(s[1]) THEN trim_start(Tail(s)) ELSE s

RECURSIVE trim_end(_)
trim_end(s) ==
    IF s # <<>> /\ is_whitespace(s[Len(s)])
    THEN trim_end(SubSeq(s, 1, Len(s) - 1))
    ELSE s

trim(s) == trim_end(trim_start(s))

\* u8::to_ascii_lowercase on the characters of the model.
to_ascii_lowercase(c) ==
    IF \E i \in 1..Len(UpperCase) : UpperCase[i] = c
    THEN LowerCase[CHOOSE i \in 1..Len(UpperCase) : UpperCase[i] = c]
    ELSE c

\* str::eq_ignore_ascii_case
eq_ignore_ascii_case(a, b) ==
    /\ Len(a) = Len(b)
    /\ \A i \in 1..Len(a) : to_ascii_lowercase(a[i]) = to_ascii_lowercase(b[i])

\* The first token of a string that starts with no whitespace.
RECURSIVE first_token(_)
first_token(s) ==
    IF s = <<>> \/ is_whitespace(s[1]) THEN <<>> ELSE <<s[1]>> \o first_token(Tail(s))

\* str::split_whitespace, collected: the maximal runs of non-whitespace.
RECURSIVE split_whitespace(_)
split_whitespace(s) ==
    LET rest == trim_start(s)
        tok  == first_token(rest)
    IN  IF rest = <<>>
        THEN <<>>
        ELSE <<tok>> \o split_whitespace(SubSeq(rest, Len(tok) + 1, Len(rest)))

\* Stdin::read_line into an empty String: the next line with its newline, or
\* nothing at the end of input (Ok(0)).  What is left of stdin comes with it.
read_line(in) ==
    IF in = <<>>
    THEN [input |-> <<>>, rest |-> <<>>]
    ELSE [input |-> Head(in), rest |-> Tail(in)]

InvalidInput == "Invalid input. Please enter a move in the format 'e2 e4'."
Goodbye == "Exiting the game. Goodbye!"

\* No make_move call was made in the iteration.
NoCall == <<>>

\* A mistaken loop body: a line of more than two tokens is taken as a move
\* made of its first two (parts.len() < 2 in place of parts.len() != 2).
main_body_AtLeastTwoParts(self, raw) ==
    LET trimmed == trim(raw)
        parts   == split_whitespace(trimmed)
    IN  IF eq_ignore_ascii_case(trimmed, <<"q", "u", "i", "t">>)
        THEN [state |-> self, printed |-> Goodbye, exit |-> TRUE, call |-> NoCall]
        ELSE IF Len(parts) < 2
        THEN [state |-> self, printed |-> InvalidInput, exit |-> FALSE, call |-> NoCall]
        ELSE IF from_str(parts[1])[1] = "Err"
        THEN [state |-> self, printed |-> from_str(parts[1])[2], exit |-> FALSE,
              call |-> NoCall]
        ELSE IF from_str(parts[2])[1] = "Err"
        THEN [state |-> self, printed |-> from_str(parts[2])[2], exit |-> FALSE,
              call |-> NoCall]
        ELSE LET from_square == from_str(parts[1])[2]
                 to_square   == from_str(parts[2])[2]
                 r           == make_move(self, from_square, to_square)
             IN  [state |-> r.state,
                  printed |-> IF r.ret[1] = "Err" THEN "Invalid move: " \o r.ret[2] ELSE "",
                  exit |-> FALSE,
                  call |-> <<from_square, to_square, r.ret>>]

\* The body of main's loop after read_line, lines 277-309: the GameState it
\* leaves, the message it prints, whether it breaks out of the loop, and the
\* make_move call it made (<<from, to, returned>>, or NoCall).
main_body(self, raw) ==
    LET trimmed == trim(raw)
        parts   == split_whitespace(trimmed)
    IN  IF eq_ignore_ascii_case(trimmed, <<"q", "u", "i", "t">>)
        THEN [state |-> self, printed |-> Goodbye, exit |-> TRUE, call |-> NoCall]
        ELSE IF Len(parts) # 2
        THEN [state |-> self, printed |-> InvalidInput, exit |-> FALSE, call |-> NoCall]
        ELSE IF from_str(parts[1])[1] = "Err"
        THEN [state |-> self, printed |-> from_str(parts[1])[2], exit |-> FALSE,
              call |-> NoCall]
        ELSE IF from_str(parts[2])[1] = "Err"
        THEN [state |-> self, printed |-> from_str(parts[2])[2], exit |-> FALSE,
              call |-> NoCall]
        ELSE LET from_square == from_str(parts[1])[2]
                 to_square   == from_str(parts[2])[2]
                 r           == make_move(self, from_square, to_square)
             IN  [state |-> r.state,
                  printed |-> IF r.ret[1] = "Err" THEN "Invalid move: " \o r.ret[2] ELSE "",
                  exit |-> FALSE,
                  call |-> <<from_square, to_square, r.ret>>]

InitMain ==
    /\ board = new.board
    /\ current_player = new.current_player
    /\ from = "none"
    /\ to = "none"
    /\ result = <<>>
    /\ nCalls = 0
    /\ nOk = 0
    /\ sq = "none"
    /\ rc = <<>>
    /\ input = <<>>
    /\ parsed = <<>>
    /\ stdin \in InputStreams
    /\ line = <<>>
    /\ pc = "read"
    /\ printed = ""

\* The top of the loop: the board and the prompt are printed, a line is read.
ReadLine ==
    /\ pc = "read"
    /\ line' = read_line(stdin).input
    /\ stdin' = read_line(stdin).rest
    /\ pc' = "dispatch"
    /\ UNCHANGED <<board, current_player, from, to, result, nCalls, nOk,
                   sq, rc, input, parsed, printed>>

\* The rest of the iteration: break, or continue to the top of the loop.
Dispatch ==
    /\ pc = "dispatch"
    /\ LET b == main_body(self_now, line)
       IN  /\ board' = b.state.board
           /\ current_player' = b.state.current_player
           /\ printed' = b.printed
           /\ pc' = IF b.exit THEN "done" ELSE "read"
           /\ IF b.call = NoCall
              THEN UNCHANGED <<from, to, result, nCalls, nOk>>
              ELSE /\ from' = b.call[1]
                   /\ to' = b.call[2]
                   /\ result' = b.call[3]
                   /\ nCalls' = nCalls + 1
                   /\ nOk' = IF b.call[3] = Ok(Unit) THEN nOk + 1 ELSE nOk
    /\ UNCHANGED <<sq, rc, input, parsed, stdin, line>>

NextMain == ReadLine \/ Dispatch

SpecMain == InitMain /\ [][NextMain]_vars

\* A line made of exactly two whitespace-separated tokens that both name a square.
IsMoveLine(l) ==
    /\ Len(split_whitespace(l)) = 2
    /\ IsSquareName(split_whitespace(l)[1])
    /\ IsSquareName(split_whitespace(l)[2])

\* The word quit in every mix of upper and lower case.
QuitSpellings ==
    {<<q, u, i, t>> : q \in {"q", "Q"}, u \in {"u", "U"}, i \in {"i", "I"}, t \in {"t", "T"}}

\* A line that holds the quit command and nothing else but whitespace.
IsQuitLine(l) ==
    /\ Len(split_whitespace(l)) = 1
    /\ split_whitespace(l)[1] \in QuitSpellings

MainStopsOnQuitOrEndOfInput ==
    [][ (pc = "dispatch" /\ (IsQuitLine(line) \/ line = <<>>)) => (pc' = "done") ]_vars

====
